---- MODULE Spec2Model ----
(***************************************************************************)
(* Model of MonteCarloTreeSearchNode (src/montecarlotreesearchnode.py).    *)
(*                                                                         *)
(* The search tree is an arena: `nodes` is the sequence of all nodes ever  *)
(* constructed, node 1 is the root, and references between nodes (parent,  *)
(* children) are indices into it; parent = 0 stands for None.              *)
(*                                                                         *)
(* GameState and OnlyDrawPlayer are imported collaborators whose code is   *)
(* not part of the module; they are modelled from the interface the        *)
(* specification gives them (section 2 and 6) as a finite table of game    *)
(* positions.  get_valid_moves() returns a fresh list on every call, so    *)
(* untried_actions.pop() does not change what the game state reports.      *)
(***************************************************************************)
EXTENDS Integers, Sequences, FiniteSets, TLC

(***************************************************************************)
(* Bounds of the model.                                                    *)
(***************************************************************************)
MaxNodes == 3
MaxCalls == 2
Budget == 6

(***************************************************************************)
(* The collaborators: players, the draw sentinel, and the game positions.  *)
(***************************************************************************)
players == {"A", "B"}
OnlyDrawPlayer == "Draw"
None == "None"

\* One record per game position.  `to` gives make_move: move -> position.
\* Positions 1..6: a two-ply game.  7: three valid moves, one of them into
\* 8, a position that is over (no valid moves) but reports no winner.
\* 9 and 10: a game that cycles and is never over.  11: the position one
\* move before positions 1 and 2.
GameTable ==
  << [current_player |-> "A", valid_moves |-> <<1, 2>>, to |-> (1 :> 2 @@ 2 :> 3), winner |-> None, is_game_over |-> FALSE],
     [current_player |-> "B", valid_moves |-> <<1, 2>>, to |-> (1 :> 4 @@ 2 :> 5), winner |-> None, is_game_over |-> FALSE],
     [current_player |-> "B", valid_moves |-> <<3>>, to |-> (3 :> 6), winner |-> None, is_game_over |-> FALSE],
     [current_player |-> "A", valid_moves |-> <<>>, to |-> <<>>, winner |-> "A", is_game_over |-> TRUE],
     [current_player |-> "A", valid_moves |-> <<>>, to |-> <<>>, winner |-> OnlyDrawPlayer, is_game_over |-> TRUE],
     [current_player |-> "A", valid_moves |-> <<>>, to |-> <<>>, winner |-> "B", is_game_over |-> TRUE],
     [current_player |-> "A", valid_moves |-> <<1, 2, 3>>, to |-> (1 :> 4 @@ 2 :> 8 @@ 3 :> 6), winner |-> None, is_game_over |-> FALSE],
     [current_player |-> "B", valid_moves |-> <<>>, to |-> <<>>, winner |-> None, is_game_over |-> TRUE],
     [current_player |-> "A", valid_moves |-> <<1>>, to |-> (1 :> 10), winner |-> None, is_game_over |-> FALSE],
     [current_player |-> "B", valid_moves |-> <<1>>, to |-> (1 :> 9), winner |-> None, is_game_over |-> FALSE],
     [current_player |-> "B", valid_moves |-> <<1, 2>>, to |-> (1 :> 2 @@ 2 :> 1), winner |-> None, is_game_over |-> FALSE] >>

GameStates == 1..Len(GameTable)

\* The positions a root node is constructed from.
RootStates == {1, 4, 7, 9}

\* The root position of the selection scenario.
ScenarioRoot == 11

\* Exploration constants, in hundredths (141 is c = 1.41).
CValues == {0, 141}

\* The values a caller can hand to backpropagate.
WinnerArgs == players \cup {OnlyDrawPlayer, None}

get_valid_moves(gs) == GameTable[gs].valid_moves
make_move(gs, move) == GameTable[gs].to[move]
current_player(gs) == GameTable[gs].current_player
winner(gs) == GameTable[gs].winner
is_game_over(gs) == GameTable[gs].is_game_over

\* get_heuristic_move: any valid move (the policy belongs to the game).
HeuristicMoves(gs) == { get_valid_moves(gs)[i] : i \in 1..Len(get_valid_moves(gs)) }

(***************************************************************************)
(* __init__ (lines 12-20).                                                 *)
(***************************************************************************)
NewWins == [p \in players \cup {OnlyDrawPlayer} |-> 0]

NewNode(game_state, parent, action) ==
  [ game_state |-> game_state,
    parent |-> parent,
    action |-> action,
    children |-> <<>>,
    untried_actions |-> get_valid_moves(game_state),
    wins |-> NewWins,
    visits |-> 0 ]

(***************************************************************************)
(* is_fully_expanded (85-87), is_terminal (89-91).                         *)
(***************************************************************************)
is_fully_expanded(ns, n) ==
  Len(ns[n].children) = Len(get_valid_moves(ns[n].game_state))

is_terminal(ns, n) == winner(ns[n].game_state) # None

(***************************************************************************)
(* win_ratio (78-83).  The ratio is kept as the exact fraction num/den;    *)
(* kind is "inf" for np.inf and "AttributeError" when self.parent is None  *)
(* and the attribute game_state is read from it.                           *)
(***************************************************************************)
\* win_ratio read for the player to move at the node itself
win_ratio_of_own_player(ns, n) ==
  IF ns[n].visits = 0
    THEN [kind |-> "inf", num |-> 0, den |-> 1]
    ELSE IF ns[n].parent = 0
      THEN [kind |-> "AttributeError", num |-> 0, den |-> 1]
      ELSE [kind |-> "fin",
            num |-> ns[n].wins[current_player(ns[n].game_state)],
            den |-> ns[n].visits]

win_ratio(ns, n) ==
  IF ns[n].visits = 0
    THEN [kind |-> "inf", num |-> 0, den |-> 1]
    ELSE IF ns[n].parent = 0
      THEN [kind |-> "AttributeError", num |-> 0, den |-> 1]
      ELSE [kind |-> "fin",
            num |-> ns[n].wins[current_player(ns[ns[n].parent].game_state)],
            den |-> ns[n].visits]

(***************************************************************************)
(* Floating point, as far as get_ucb needs it.  A float is nan, +inf or a  *)
(* finite value held in units of 1/Scale (two billionths), in which every  *)
(* UCB value for c <= 1.41 fits a 32-bit integer.  np.sqrt(np.log(P) / v)  *)
(* is tabulated in billionths for P, v in 1..40, rounded down.             *)
(***************************************************************************)
Scale == 500000000

\* SqrtLogTable[P][v] = floor(10^9 * sqrt(ln(P) / v))
SqrtLogTable ==
  <<
     << 0, 0, 0, 0, 0, 0, 0, 0,
        0, 0, 0, 0, 0, 0, 0, 0,
        0, 0, 0, 0, 0, 0, 0, 0,
        0, 0, 0, 0, 0, 0, 0, 0,
        0, 0, 0, 0, 0, 0, 0, 0 >>,
     << 832554611, 588705011, 480675628, 416277305, 372329741, 339888996, 314676064, 294352505,
        277518203, 263276884, 251024660, 240337814, 230909103, 222509579, 214964676, 208138652,
        201924152, 196235003, 191001127, 186164870, 181678310, 177501239, 173599636, 169944498,
        166510922, 163277392, 160225209, 157338032, 154601510, 152002980, 149531222, 147176252,
        144929155, 142781937, 140727414, 138759101, 136871134, 135058192, 133315432, 131638442 >>,
     << 1048147073, 741151903, 605147995, 524073536, 468745621, 427904251, 396162356, 370575951,
        349382357, 331453207, 316028233, 302573997, 290703693, 280129088, 270630410, 262036768,
        254213005, 247050634, 240461430, 234372810, 228724443, 223465707, 218553772, 213952125,
        209629414, 205558553, 201715998, 198081178, 194636025, 191364598, 188252771, 185287975,
        182458985, 179755740, 177169191, 174691178, 172314317, 170031907, 167837855, 165726603 >>,
     << 1177410022, 832554611, 679777993, 588705011, 526553769, 480675628, 445019158, 416277305,
        392470007, 372329741, 355002479, 339888996, 326554785, 314676064, 304005960, 294352505,
        285563875, 277518203, 270116384, 263276884, 256931931, 251024660, 245506960, 240337814,
        235482004, 230909103, 226592664, 222509579, 218639552, 214964676, 211469082, 208138652,
        204960776, 201924152, 199018618, 196235003, 193565015, 191001127, 188536493, 186164870 >>,
     << 1268636241, 897061288, 732447475, 634318120, 567351374, 517918576, 479499428, 448530644,
        422878747, 401178004, 382508218, 366223737, 351856385, 339057297, 327560468, 317159060,
        307689483, 299020429, 291045114, 283675687, 276839124, 270474155, 264528942, 258959288,
        253727248, 248800036, 244149158, 239749714, 235579835, 231620228, 227853795, 224265322,
        220841223, 217569320, 214438663, 211439373, 208562513, 205799973, 203144379, 200589002 >>,
     << 1338566199, 946509236, 772821555, 669283099, 598625002, 546467362, 505930468, 473254618,
        446188733, 423291798, 403592894, 386410777, 371251466, 357746864, 345616306, 334641549,
        324649989, 315503078, 307088146, 299312501, 292099091, 285383272, 279110346, 273233681,
        267713239, 262514429, 257607185, 252965234, 248565503, 244387633, 240413586, 236627309,
        233014466, 229562209, 226258983, 223094366, 220058927, 217144111, 214342134, 211645899 >>,
     << 1394958834, 986384851, 805379858, 697479417, 623844555, 569489559, 527244880, 493192425,
        464986278, 441124715, 420595913, 402689929, 386891969, 372818430, 360176822, 348739708,
        338327212, 328794950, 320025504, 311922277, 304404973, 297406222, 290869023, 284744779,
        278991766, 273573935, 268459952, 263622440, 259037352, 254683473, 250542002, 246596212,
        242831164, 239233466, 235791078, 232493139, 229329819, 226292204, 223372182, 220562357 >>,
     << 1442026886, 1019666990, 832554611, 721013443, 644894028, 588705011, 545034932, 509833495,
        480675628, 456008940, 434787465, 416277305, 399946298, 385397896, 372329741, 360506721,
        349742892, 339888996, 330823656, 322447014, 314676064, 307441165, 300683391, 294352505,
        288405377, 282804739, 277518203, 272517466, 267777670, 263276884, 258995674, 254916747,
        251024660, 247305570, 243747031, 240337814, 237067759, 233927650, 230909103, 228004470 >>,
     << 1482303807, 1048147073, 855808502, 741151903, 662906415, 605147995, 560258177, 524073536,
        494101269, 468745621, 446931414, 427904251, 411117106, 396162356, 382729197, 370575951,
        359511480, 349382357, 340063815, 331453207, 323465209, 316028233, 309081709, 302573997,
        296460761, 290703693, 285269500, 280129088, 275256906, 270630410, 266229623, 262036768,
        258035972, 254213005, 250555073, 247050634, 243689244, 240461430, 237358572, 234372810 >>,
     << 1517427129, 1072983013, 876086961, 758713564, 678614042, 619487031, 573533545, 536491506,
        505809043, 479852591, 457521494, 438043480, 420858563, 405549459, 391798000, 379356782,
        368030137, 357661004, 348121658, 339307021, 331129746, 323516551, 316405428, 309743515,
        303485425, 297591943, 292028987, 286766772, 281779143, 277043022, 272537957, 268245753,
        264150157, 260236605, 256491998, 252904521, 249463483, 246159185, 242982804, 239926295 >>,
     << 1548513891, 1094964673, 894034912, 774256945, 692516465, 632178149, 585283237, 547482336,
        516171297, 489683088, 466894505, 447017456, 429480479, 413857745, 399824567, 387128472,
        375569784, 364988224, 355253450, 346258232, 337913434, 330144270, 322887466, 316089074,
        309702778, 303688559, 298011637, 292641618, 287551810, 282718663, 278121305, 273741168,
        269561668, 265567941, 261746620, 258085648, 254574115, 251202124, 247960670, 244841544 >>,
     << 1576358667, 1114653903, 910111101, 788179333, 704969027, 643545731, 595807573, 557326951,
        525452889, 498488379, 475290021, 455055550, 437203231, 421299575, 407014057, 394089666,
        382323134, 371551301, 361641480, 352484513, 343989662, 336080797, 328693503, 321772865,
        315271733, 309149369, 303370367, 297903786, 292722455, 287802400, 283122374, 278663475,
        274408821, 270343281, 266453247, 262726444, 259151768, 255719143, 252419403, 249244189 >>,
     << 1601545927, 1132463985, 924652972, 800772963, 716233112, 653828386, 605327462, 566231992,
        533848642, 506453290, 482884265, 462326486, 444188920, 428031153, 413517380, 400386481,
        388431942, 377487995, 367419834, 358116556, 349485973, 341450738, 333945410, 326914193,
        320309185, 314088997, 308217657, 302663731, 297399612, 292400943, 287646139, 283115996,
        278793360, 274662860, 270710670, 266924321, 263292528, 259805056, 256452592, 253226645 >>,
     << 1624517568, 1148707388, 937915655, 812258784, 726506342, 663206520, 614009926, 574353694,
        541505856, 513717561, 489810476, 468957827, 450560106, 434170582, 419448632, 406129392,
        394003383, 382902462, 372689890, 363253171, 354498796, 346348309, 338735328, 331603260,
        324903513, 318594106, 312638551, 307004963, 301665339, 296594972, 291771968, 287176847,
        282792210, 278602464, 274593586, 270752928, 267069043, 263531548, 260130999, 256858780 >>,
     << 1645615447, 1163625842, 950096521, 822807723, 735941601, 671819693, 621984175, 581812921,
        548538482, 520389296, 496171726, 475048260, 456411605, 439809228, 424896081, 411403861,
        399120371, 387875280, 377530075, 367970800, 359102731, 350846392, 343134540, 335909846,
        329123089, 322731741, 316698840, 310992087, 305583117, 300446900, 295561259, 290906460,
        286464879, 282220720, 278159779, 274269241, 270537513, 266954076, 263509363, 260194648 >>,
     << 1665109222, 1177410022, 961351257, 832554611, 744659482, 679777993, 629352129, 588705011,
        555036407, 526553769, 502049320, 480675628, 461818206, 445019158, 429929352, 416277305,
        403848305, 392470007, 382002254, 372329741, 363356621, 355002479, 347199273, 339888996,
        333021844, 326554785, 320450419, 314676064, 309203020, 304005960, 299062444, 294352505,
        289858310, 285563875, 281454828, 277518203, 273742269, 270116384, 266630865, 263276884 >>,
     << 1683215180, 1190212868, 971804737, 841607590, 752756712, 687169719, 636195538, 595106434,
        561071726, 532279376, 507508472, 485902368, 466839895, 449858179, 434604290, 420803795,
        408239645, 396737622, 386156045, 376378356, 367307665, 358862682, 350974627, 343584859,
        336643036, 330105655, 323934912, 318097769, 312565212, 307311641, 302314370, 297553217,
        293010153, 288669021, 284515294, 280535863, 276718871, 273053558, 269530139, 266139688 >>,
     << 1700109337, 1202158840, 981558583, 850054668, 760312009, 694066730, 642580929, 601079420,
        566703112, 537621777, 512602252, 490779291, 471525491, 454373332, 438966343, 425027334,
        412337080, 400719613, 390031831, 380156004, 370994272, 362464528, 354497302, 347033365,
        340021867, 333418872, 327186194, 321290464, 315702378, 310396078, 305348650, 300539710,
        295951048, 291566345, 287370927, 283351556, 279496253, 275794152, 272235369, 268810888 >>,
     << 1715936764, 1213350522, 990696552, 857968382, 767390250, 700528250, 648563134, 606675261,
        571978921, 542626849, 517374401, 495348276, 475915229, 458603390, 443052967, 428984191,
        416175795, 404450174, 393662892, 383695125, 374448100, 365838947, 357797548, 350264125,
        343187352, 336522886, 330232184, 324281567, 318641457, 313285757, 308191340, 303337630,
        298706249, 294280727, 290046251, 285989460, 282098266, 278361700, 274769786, 271313424 >>,
     << 1730818382, 1223873415, 999288459, 865409191, 774045512, 706603645, 654187857, 611936707,
        576939460, 547332830, 521861377, 499644229, 480042648, 462580670, 446895384, 432704595,
        419785118, 407957805, 397076969, 387022756, 377695535, 369011719, 360900580, 353301822,
        346163676, 339441411, 333096153, 327093928, 321404904, 316002757, 310864158, 305968353,
        301296806, 296832903, 292561704, 288469730, 284544789, 280775817, 277152752, 273666415 >>,
     << 1744855993, 1233799505, 1007393077, 872427996, 780323322, 712334476, 659493576, 616899752,
        581618664, 551771912, 526093876, 503696538, 483935980, 466332379, 450519880, 436213998,
        423189738, 411266501, 400297418, 390161661, 380758793, 372004547, 363827625, 356167238,
        348971198, 342194413, 335797692, 329746788, 324011623, 318565662, 313385387, 308449876,
        303740441, 299240334, 294934493, 290809332, 286852558, 283053018, 279400568, 275885956 >>,
     << 1758136073, 1243189939, 1015060335, 879068036, 786262354, 717756046, 664512974, 621594969,
        586045357, 555971442, 530097971, 507530167, 487619212, 469881630, 453948782, 439534018,
        426410631, 414396646, 403344077, 393131177, 383656744, 374835870, 366596713, 358878023,
        351627214, 344798851, 338353445, 332256487, 326477672, 320990262, 315770560, 310797484,
        306052206, 301517849, 297179236, 293022678, 289035790, 285207332, 281527083, 277985721 >>,
     << 1770732677, 1252097084, 1022332988, 885366338, 791895727, 722898588, 669274043, 626048542,
        590244225, 559954838, 533895990, 511166494, 491112881, 473248214, 457201211, 442683169,
        429465756, 417365694, 406233936, 395947863, 386405549, 377521475, 369223286, 361449294,
        354146535, 347269249, 340777662, 334637021, 328816803, 323290076, 318032977, 313024271,
        308244993, 303678148, 299308451, 295122112, 291106659, 287250771, 283544154, 279977419 >>,
     << 1782709687, 1260566109, 1029247918, 891354843, 797252009, 727788182, 673800927, 630283054,
        594236562, 563742301, 537507194, 514623959, 494434706, 476449205, 460293662, 445677421,
        432370608, 420188703, 408981651, 398626004, 389019146, 380074982, 371720665, 363894091,
        356541937, 349618134, 343082639, 336900463, 331040878, 325476769, 320184111, 315141527,
        310329923, 305732189, 301332935, 297118281, 293075667, 289193698, 285462011, 281871150 >>,
     << 1794122577, 1268636241, 1035837153, 897061288, 802356008, 732447475, 678114594, 634318120,
        598040859, 567351374, 540948310, 517918576, 497600073, 479499428, 463240457, 448530644,
        435138640, 422878747, 411599947, 401178004, 391509643, 382508218, 374100418, 366223737,
        358824515, 351856385, 345279051, 339057297, 333160198, 327560468, 322233927, 317159060,
        312316652, 307689483, 303262066, 299020429, 294951934, 291045114, 287289536, 283675687 >>,
     << 1805019816, 1276341752, 1042128676, 902509908, 807229402, 736896254, 682233363, 638170876,
        601673272, 570797384, 544233951, 521064338, 500622423, 482411837, 466054112, 451254954,
        437781609, 425447250, 414099945, 403614701, 393887616, 384831517, 376372649, 368448127,
        361003963, 353993510, 347376225, 341116681, 335183765, 329550023, 324191129, 319085438,
        314213618, 309558344, 305104035, 300836636, 296743429, 292812879, 289034490, 285398692 >>,
     << 1815443985, 1283712753, 1048147073, 907721992, 811891232, 741151903, 686173329, 641856376,
        605147995, 574093795, 547376957, 524073536, 503513567, 485197814, 468745621, 453860996,
        440309841, 427904251, 416491414, 405945616, 396162356, 387053958, 378546238, 370575951,
        363088797, 356037858, 349382357, 343086664, 337119484, 331453207, 326063365, 320928188,
        316028233, 311346074, 306866041, 302573997, 298457152, 294503903, 290703693, 287046897 >>,
     << 1825432691, 1290775834, 1053914055, 912716345, 816358317, 745229775, 689948705, 645387917,
        608477563, 577252501, 550388665, 526957027, 506283936, 487867408, 471324694, 456358172,
        442732458, 430258611, 418782980, 408179158, 398342070, 389183557, 380629028, 372614887,
        365086538, 357996804, 351304685, 344974352, 338974340, 333276887, 327857389, 322693958,
        317767043, 313059123, 308554441, 304238781, 300099285, 296124285, 292303166, 288626250 >>,
     << 1835019299, 1297554590, 1059448886, 917509649, 820645578, 749143492, 693572102, 648777295,
        611673099, 580284053, 553279136, 529724443, 508942782, 490429536, 473799945, 458754824,
        445057552, 432518196, 420982299, 410322789, 400434040, 391227429, 382627974, 374571746,
        367003859, 359876892, 353149628, 346786051, 340754529, 335027154, 329579195, 324388647,
        319435858, 314703213, 310174873, 305836549, 301675314, 297679438, 293838252, 290142026 >>,
     << 1844233548, 1304070048, 1064768735, 922116774, 824766316, 752905193, 697054761, 652035024,
        614744516, 583197855, 556057336, 532384367, 511498355, 492892148, 476179054, 461058387,
        447292336, 434690016, 423096192, 412383158, 402444754, 393191913, 384549277, 376452596,
        368846709, 361683955, 354922911, 348527380, 342465572, 336709438, 331234123, 326017512,
        321039853, 316283444, 311732366, 307372258, 303190127, 299174187, 295313713, 291598927 >>,
     << 1853102049, 1310341025, 1069888966, 926551024, 828732430, 756525743, 700406739, 655170512,
        617700683, 586002321, 558731290, 534944483, 513958035, 495262355, 478468891, 463275512,
        449443263, 436780341, 425130766, 414366215, 404380019, 395082684, 386398487, 378262871,
        370620409, 363423211, 356629655, 350203369, 344112411, 338328597, 332826953, 327585256,
        322583660, 317804379, 313231416, 308850341, 304648100, 300612847, 296733809, 293001160 >>,
     << 1861648705, 1316384423, 1074823381, 930824352, 832554611, 760014901, 703637071, 658192211,
        620549568, 588705011, 561308204, 537411690, 516328451, 497546545, 480675628, 465412176,
        451516132, 438794807, 427091503, 416277305, 406245052, 396904837, 388180589, 380007450,
        372329741, 365099349, 358274460, 351818535, 345699485, 339888996, 334361978, 329096105,
        324071442, 319270119, 314676064, 310274784, 306053161, 301999298, 298102370, 294352505 >>,
     << 1869895066, 1322215481, 1079584420, 934947533, 836242496, 763381464, 706753903, 661107740,
        623298355, 591312739, 563794575, 539792210, 518615580, 499750477, 482804830, 467473766,
        453516168, 440738493, 428983349, 418121248, 408044556, 398662967, 389900074, 381690732,
        373979013, 366716593, 359861473, 353376951, 347230796, 341394569, 335843068, 330553870,
        325506950, 320684358, 316069954, 311649177, 307408855, 303337035, 299422844, 295656369 >>,
     << 1877860624, 1327847981, 1084183336, 938930312, 839804801, 766633389, 709764601, 663923990,
        625953541, 593831670, 566196281, 542091668, 520824828, 501879362, 484861528, 469465156,
        455448100, 442615993, 430810773, 419902400, 409782783, 400361230, 391561007, 383316694,
        375572124, 368278767, 361394445, 354882300, 348709963, 342848874, 337273724, 331961995,
        326893575, 322050440, 317416379, 312976770, 308718384, 304629219, 300698354, 296915835 >>,
     << 1885563062, 1333294427, 1088630341, 942781531, 843249436, 769777896, 712675849, 666647213,
        628521020, 596267394, 568518654, 544315170, 522961100, 503937925, 486850289, 471390765,
        457316215, 444431475, 432577833, 421624718, 411463593, 402003395, 393167077, 384888948,
        377112612, 369789340, 362876780, 356337924, 350140270, 344255140, 338657123, 333323606,
        328234398, 323371397, 318718328, 314260510, 309984657, 305878719, 301931732, 298133697 >>,
     << 1893018472, 1338566199, 1092934724, 946509236, 846583597, 772821555, 715493729, 669283099,
        631006157, 598625002, 570766545, 546467362, 525028859, 505930468, 488775267, 473254618,
        459124418, 446188733, 434288222, 423291798, 413090497, 403592894, 394721637, 386410777,
        378603694, 371251466, 364311574, 357746864, 351524705, 345616306, 339996154, 334641549,
        329532218, 324649989, 319978523, 315503078, 311210319, 307088146, 303125553, 299312501 >>,
     << 1900241540, 1343673679, 1097104964, 950120770, 849813851, 775770360, 718223792, 671836839,
        633413846, 600909137, 572944381, 548552482, 527032177, 507860914, 490640256, 475060385,
        460876269, 447891226, 435945307, 424906925, 414666699, 405132857, 396227751, 387885180,
        380048308, 372668026, 365701654, 359111896, 352865995, 346935052, 341293455, 335918419,
        330789593, 325888735, 321199444, 316706923, 312397784, 308259883, 304282169, 300454568 >>,
     << 1907245699, 1348626367, 1101148818, 953622849, 852946206, 778629796, 720871115, 674313183,
        635748566, 603124046, 575056215, 550574409, 528974781, 509732854, 492448722, 476811424,
        462575027, 449542122, 437552171, 426473103, 416195132, 406626149, 397688219, 389314898,
        381449139, 374041655, 367049606, 360435557, 354166635, 348213830, 342551439, 337156591,
        332008860, 327089939, 322383363, 317874283, 313549261, 309396107, 305403732, 301562023 >>,
     << 1914043271, 1353432976, 1105073398, 957021635, 855986173, 781404893, 723440356, 676716488,
        638014423, 605273627, 577105760, 552536699, 530860089, 511549581, 494203847, 478510817,
        464223681, 451144325, 439111641, 427993086, 417678484, 408075396, 399105611, 390702446,
        382808654, 375374768, 368357799, 361720178, 355428912, 349454891, 343772319, 338358244,
        333192166, 328255713, 323532362, 319007211, 314666775, 310498819, 306492215, 302636813 >>,
     << 1920645582, 1358101515, 1108885244, 960322791, 858938816, 784100275, 725935795, 679050757,
        640215194, 607361461, 579096432, 554442622, 532691240, 513314123, 495908557, 480161395,
        465824976, 452700505, 440626315, 429469408, 419119226, 409483014, 400482288, 392050137,
        384129116, 376669588, 369628414, 362967897, 356654930, 350660303, 344958129, 339525378,
        334341480, 329387999, 324648357, 320107597, 315752188, 311569855, 307549431, 303680730 >>
  >>

NaN == [nan |-> TRUE, inf |-> FALSE, val |-> 0]
Inf == [nan |-> FALSE, inf |-> TRUE, val |-> 0]
Fin(v) == [nan |-> FALSE, inf |-> FALSE, val |-> v]

\* floor(Scale * num / den), in two steps of four digits to stay in 32 bits
ScaledRatio(num, den) ==
  ((num * (Scale \div 10000)) \div den) * 10000
    + (((num * (Scale \div 10000)) % den) * 10000) \div den

\* c * np.sqrt(np.log(parent_visits) / child_visits), c in hundredths.
\* log(0) is -inf and sqrt of it nan; 0.0/0 is nan; x/0 is inf for x > 0;
\* 0 * inf is nan.  The finite case is floor(c * s / 200) for the table
\* entry s, computed on the two halves of s to stay in 32 bits.
ExplorationTerm(c, parent_visits, child_visits) ==
  IF parent_visits = 0 THEN NaN
  ELSE IF child_visits = 0
    THEN IF parent_visits = 1 \/ c = 0 THEN NaN ELSE Inf
    ELSE Fin(c * (SqrtLogTable[parent_visits][child_visits] \div 20000) * 100
               + (c * (SqrtLogTable[parent_visits][child_visits] % 20000)) \div 200)

\* get_ucb (65-67)
get_ucb(ns, child, c) ==
  LET ratio == win_ratio(ns, child)
      term == ExplorationTerm(c, ns[ns[child].parent].visits, ns[child].visits)
  IN IF term.nan THEN NaN
     ELSE IF ratio.kind = "inf" \/ term.inf THEN Inf
     ELSE Fin(ScaledRatio(ratio.num, ratio.den) + term.val)

\* np.argmax: the first nan if there is one, else the first maximum.
\* Index into a non-empty sequence of floats.
FloatGreater(a, b) ==
  IF a.inf THEN ~b.inf ELSE (~b.inf /\ a.val > b.val)

ArgMax(values) ==
  LET idx == 1..Len(values)
      nans == { i \in idx : values[i].nan }
  IN IF nans # {}
       THEN CHOOSE i \in nans : \A j \in nans : i <= j
       ELSE CHOOSE i \in idx :
              /\ \A j \in idx : ~FloatGreater(values[j], values[i])
              /\ \A j \in 1..(i - 1) : FloatGreater(values[i], values[j])

\* select_child_with_max_ucb (61-63); called on a node with children.
select_child_with_max_ucb(ns, n, c) ==
  LET ucb_values == [i \in 1..Len(ns[n].children) |-> get_ucb(ns, ns[n].children[i], c)]
  IN ns[n].children[ArgMax(ucb_values)]

(***************************************************************************)
(* expand (32-39).  list.pop() on an empty list raises IndexError before   *)
(* anything is changed.  Result: the new arena, the child returned (0 if   *)
(* none) and the exception raised ("none" if none).                        *)
(***************************************************************************)
\* expand reading the last untried action without removing it
expand_without_pop(ns, n) ==
  IF ns[n].untried_actions = <<>>
    THEN [nodes |-> ns, ret |-> 0, err |-> "IndexError"]
    ELSE LET action == ns[n].untried_actions[Len(ns[n].untried_actions)]
         IN [nodes |-> Append([ns EXCEPT ![n].children = Append(@, Len(ns) + 1)],
                              NewNode(make_move(ns[n].game_state, action), n, action)),
             ret |-> Len(ns) + 1,
             err |-> "none"]

\* expand appending a child without a move when nothing is left untried
expand_when_exhausted(ns, n) ==
  LET k == Len(ns[n].untried_actions)
  IN [nodes |-> Append([ns EXCEPT ![n].children = Append(@, Len(ns) + 1),
                                  ![n].untried_actions = IF k = 0 THEN @ ELSE SubSeq(@, 1, k - 1)],
                       NewNode(IF k = 0 THEN ns[n].game_state
                                        ELSE make_move(ns[n].game_state, ns[n].untried_actions[k]),
                               n,
                               IF k = 0 THEN 0 ELSE ns[n].untried_actions[k])),
      ret |-> Len(ns) + 1,
      err |-> "none"]

\* expand putting the new child in front of the children
expand_prepending(ns, n) ==
  IF ns[n].untried_actions = <<>>
    THEN [nodes |-> ns, ret |-> 0, err |-> "IndexError"]
    ELSE LET k == Len(ns[n].untried_actions)
             action == ns[n].untried_actions[k]
         IN [nodes |-> Append([ns EXCEPT ![n].untried_actions = SubSeq(@, 1, k - 1),
                                         ![n].children = <<Len(ns) + 1>> \o @],
                              NewNode(make_move(ns[n].game_state, action), n, action)),
             ret |-> Len(ns) + 1,
             err |-> "none"]

\* expand taking the first untried action (pop(0)) instead of the last
expand_pop_first(ns, n) ==
  IF ns[n].untried_actions = <<>>
    THEN [nodes |-> ns, ret |-> 0, err |-> "IndexError"]
    ELSE LET action == ns[n].untried_actions[1]
         IN [nodes |-> Append([ns EXCEPT ![n].untried_actions = Tail(@),
                                         ![n].children = Append(@, Len(ns) + 1)],
                              NewNode(make_move(ns[n].game_state, action), n, action)),
             ret |-> Len(ns) + 1,
             err |-> "none"]

expand(ns, n) ==
  IF ns[n].untried_actions = <<>>
    THEN [nodes |-> ns, ret |-> 0, err |-> "IndexError"]
    ELSE LET k == Len(ns[n].untried_actions)
             action == ns[n].untried_actions[k]
             new_game_state == make_move(ns[n].game_state, action)
             child_node == Len(ns) + 1
             popped == [ns EXCEPT ![n].untried_actions = SubSeq(@, 1, k - 1)]
         IN [nodes |-> Append([popped EXCEPT ![n].children = Append(@, child_node)],
                              NewNode(new_game_state, n, action)),
             ret |-> child_node,
             err |-> "none"]

(***************************************************************************)
(* select (22-30).  The descent ends at a terminal node, at a node that    *)
(* is not fully expanded (which select then expands), or in np.argmax      *)
(* raising ValueError on an empty list of UCB values.                      *)
(***************************************************************************)
RECURSIVE select_descent(_, _, _)
select_descent(ns, leaf_node, c) ==
  IF is_terminal(ns, leaf_node)
    THEN [kind |-> "terminal", node |-> leaf_node]
    ELSE IF ~is_fully_expanded(ns, leaf_node)
      THEN [kind |-> "expand", node |-> leaf_node]
      ELSE IF ns[leaf_node].children = <<>>
        THEN [kind |-> "ValueError", node |-> leaf_node]
        ELSE select_descent(ns, select_child_with_max_ucb(ns, leaf_node, c), c)

\* select returning the node found not fully expanded, without expanding it
select_without_expand(ns, n, c) ==
  LET d == select_descent(ns, n, c)
  IN IF d.kind = "ValueError"
       THEN [nodes |-> ns, ret |-> 0, err |-> "ValueError"]
       ELSE [nodes |-> ns, ret |-> d.node, err |-> "none"]

\* select expanding a node and returning it instead of the new child
select_returning_expanded(ns, n, c) ==
  LET d == select_descent(ns, n, c)
  IN CASE d.kind = "terminal" -> [nodes |-> ns, ret |-> d.node, err |-> "none"]
       [] d.kind = "expand" -> [expand(ns, d.node) EXCEPT !.ret = d.node]
       [] d.kind = "ValueError" -> [nodes |-> ns, ret |-> 0, err |-> "ValueError"]

\* select expanding the node it stops at a second time when it can
select_expanding_twice(ns, n, c) ==
  LET d == select_descent(ns, n, c)
  IN CASE d.kind = "terminal" -> [nodes |-> ns, ret |-> d.node, err |-> "none"]
       [] d.kind = "expand" ->
            LET once == expand(ns, d.node)
            IN IF once.nodes[d.node].untried_actions = <<>>
                 THEN once ELSE expand(once.nodes, d.node)
       [] d.kind = "ValueError" -> [nodes |-> ns, ret |-> 0, err |-> "ValueError"]

select(ns, n, c) ==
  LET d == select_descent(ns, n, c)
  IN CASE d.kind = "terminal" -> [nodes |-> ns, ret |-> d.node, err |-> "none"]
       [] d.kind = "expand" -> expand(ns, d.node)
       [] d.kind = "ValueError" -> [nodes |-> ns, ret |-> 0, err |-> "ValueError"]

(***************************************************************************)
(* backpropagate (53-57).  self.wins[who_won] += 1 raises KeyError when    *)
(* who_won is not a key, after self.visits has been incremented.           *)
(***************************************************************************)
\* wins[who_won] = wins.get(who_won, 0) + 1: a missing key is inserted
increment_wins_inserting(wins, who_won) ==
  IF who_won \in DOMAIN wins
    THEN [wins |-> [wins EXCEPT ![who_won] = @ + 1], err |-> "none"]
    ELSE [wins |-> (who_won :> 1) @@ wins, err |-> "none"]

\* a draw counted as a visit but not recorded in wins
increment_wins_draw_uncounted(wins, who_won) ==
  IF who_won \in DOMAIN wins
    THEN [wins |-> IF who_won = OnlyDrawPlayer THEN wins ELSE [wins EXCEPT ![who_won] = @ + 1],
          err |-> "none"]
    ELSE [wins |-> wins, err |-> "KeyError"]

increment_wins(wins, who_won) ==
  IF who_won \in DOMAIN wins
    THEN [wins |-> [wins EXCEPT ![who_won] = @ + 1], err |-> "none"]
    ELSE [wins |-> wins, err |-> "KeyError"]

\* backpropagate updating the node and its parent only
backpropagate_parent_only(ns, n, who_won) ==
  LET visited == [ns EXCEPT ![n].visits = @ + 1]
      inc == increment_wins(visited[n].wins, who_won)
      counted == [visited EXCEPT ![n].wins = inc.wins]
      p == ns[n].parent
  IN IF inc.err # "none"
       THEN [nodes |-> counted, err |-> inc.err]
       ELSE IF p # 0
         THEN [nodes |-> [counted EXCEPT ![p].visits = @ + 1,
                                         ![p].wins = increment_wins(@, who_won).wins],
               err |-> "none"]
         ELSE [nodes |-> counted, err |-> "none"]

\* backpropagate updating the starting node only, without going to the parent
backpropagate_leaf_only(ns, n, who_won) ==
  LET visited == [ns EXCEPT ![n].visits = @ + 1]
      inc == increment_wins(visited[n].wins, who_won)
  IN [nodes |-> [visited EXCEPT ![n].wins = inc.wins], err |-> inc.err]

\* backpropagate counting a visit only when the winner is a player
RECURSIVE backpropagate_draw_unvisited(_, _, _)
backpropagate_draw_unvisited(ns, n, who_won) ==
  LET visited == [ns EXCEPT ![n].visits = IF who_won = OnlyDrawPlayer THEN @ ELSE @ + 1]
      inc == increment_wins(visited[n].wins, who_won)
      counted == [visited EXCEPT ![n].wins = inc.wins]
  IN IF inc.err # "none"
       THEN [nodes |-> counted, err |-> inc.err]
       ELSE IF counted[n].parent # 0
         THEN backpropagate_draw_unvisited(counted, counted[n].parent, who_won)
         ELSE [nodes |-> counted, err |-> "none"]

RECURSIVE backpropagate(_, _, _)
backpropagate(ns, n, who_won) ==
  LET visited == [ns EXCEPT ![n].visits = @ + 1]
      inc == increment_wins(visited[n].wins, who_won)
      counted == [visited EXCEPT ![n].wins = inc.wins]
  IN IF inc.err # "none"
       THEN [nodes |-> counted, err |-> inc.err]
       ELSE IF counted[n].parent # 0
         THEN backpropagate(counted, counted[n].parent, who_won)
         ELSE [nodes |-> counted, err |-> "none"]

(***************************************************************************)
(* State.                                                                  *)
(*   nodes          the arena of nodes; nodes[1] is the root               *)
(*   pc             "idle", or "rollout" while the loop of rollout runs    *)
(*   rollout_node   the node rollout was called on (0 when idle)           *)
(*   rollout_state  the local rollout_state of the running rollout         *)
(*   last           the last call made on the tree and how it ended        *)
(*   traversed      per node, how many backpropagate calls executed at it  *)
(*   calls          how many backpropagate calls have been made            *)
(*   driver         the search loop around the tree: its phase, its        *)
(*                  exploration constant, completed cycles, the node       *)
(*                  select returned, the winner rollout returned, and the  *)
(*                  nodes select has returned so far, one per cycle        *)
(***************************************************************************)
VARIABLES nodes, pc, rollout_node, rollout_state, last, traversed, calls, driver

vars == <<nodes, pc, rollout_node, rollout_state, last, traversed, calls, driver>>

NodeIds == 1..Len(nodes)

NoCall == [op |-> "none", node |-> 0, ret |-> 0, winner |-> "", err |-> "none"]

Call(op, n) == [NoCall EXCEPT !.op = op, !.node = n]

DriverOff ==
  [phase |-> "off", c |-> -1, cycles |-> 0, leaf |-> 0, winner |-> "", leaves |-> <<>>]

\* n and its ancestors up to the root, by parent links.
RECURSIVE PathToRoot(_, _)
PathToRoot(ns, n) ==
  IF ns[n].parent = 0 THEN {n} ELSE {n} \cup PathToRoot(ns, ns[n].parent)

\* The nodes at which a backpropagate(who_won) started at n executes.
TraversedBy(ns, n, who_won) ==
  IF who_won \in DOMAIN ns[n].wins THEN PathToRoot(ns, n) ELSE {n}

Init ==
  /\ \E gs \in RootStates : nodes = <<NewNode(gs, 0, 0)>>
  /\ pc = "idle"
  /\ rollout_node = 0
  /\ rollout_state = 0
  /\ last = NoCall
  /\ traversed = <<0>>
  /\ calls = 0
  /\ driver = DriverOff

(***************************************************************************)
(* The calls a caller can make on any node of the tree.                    *)
(***************************************************************************)
Select(n, c) ==
  /\ pc = "idle"
  /\ LET r == select(nodes, n, c)
     IN /\ Len(r.nodes) <= MaxNodes
        /\ nodes' = r.nodes
        /\ traversed' = IF Len(r.nodes) > Len(nodes) THEN Append(traversed, 0) ELSE traversed
        /\ last' = [Call("select", n) EXCEPT !.ret = r.ret, !.err = r.err]
  /\ UNCHANGED <<pc, rollout_node, rollout_state, calls, driver>>

Expand(n) ==
  /\ pc = "idle"
  /\ LET r == expand(nodes, n)
     IN /\ Len(r.nodes) <= MaxNodes
        /\ nodes' = r.nodes
        /\ traversed' = IF Len(r.nodes) > Len(nodes) THEN Append(traversed, 0) ELSE traversed
        /\ last' = [Call("expand", n) EXCEPT !.ret = r.ret, !.err = r.err]
  /\ UNCHANGED <<pc, rollout_node, rollout_state, calls, driver>>

\* rollout (44-51): entry, one iteration of the while loop, and the return.
RolloutCall(n) ==
  /\ pc = "idle"
  /\ pc' = "rollout"
  /\ rollout_node' = n
  /\ rollout_state' = nodes[n].game_state
  /\ last' = Call("rollout", n)
  /\ UNCHANGED <<nodes, traversed, calls, driver>>

\* the loop applying each move to self.game_state instead of a local
RolloutStep_on_node ==
  /\ pc = "rollout"
  /\ ~is_game_over(rollout_state)
  /\ \E move \in HeuristicMoves(rollout_state) :
       rollout_state' = make_move(rollout_state, move)
  /\ nodes' = [nodes EXCEPT ![rollout_node].game_state = rollout_state']
  /\ UNCHANGED <<pc, rollout_node, last, traversed, calls, driver>>

RolloutStep ==
  /\ pc = "rollout"
  /\ ~is_game_over(rollout_state)
  /\ \E move \in HeuristicMoves(rollout_state) :
       rollout_state' = make_move(rollout_state, move)
  /\ UNCHANGED <<nodes, pc, rollout_node, last, traversed, calls, driver>>

RolloutReturn ==
  /\ pc = "rollout"
  /\ is_game_over(rollout_state)
  /\ pc' = "idle"
  /\ last' = [last EXCEPT !.winner = winner(rollout_state)]
  /\ rollout_node' = 0
  /\ rollout_state' = 0
  /\ driver' = IF driver.phase = "rollout"
                 THEN [driver EXCEPT !.phase = "backpropagate", !.winner = winner(rollout_state)]
                 ELSE driver
  /\ UNCHANGED <<nodes, traversed, calls>>

Backpropagate(n, who_won) ==
  /\ pc = "idle"
  /\ calls < MaxCalls
  /\ calls' = calls + 1
  /\ LET r == backpropagate(nodes, n, who_won)
     IN /\ nodes' = r.nodes
        /\ last' = [Call("backpropagate", n) EXCEPT !.err = r.err]
  /\ traversed' = [m \in NodeIds |->
                     IF m \in TraversedBy(nodes, n, who_won) THEN traversed[m] + 1 ELSE traversed[m]]
  /\ UNCHANGED <<pc, rollout_node, rollout_state, driver>>

Next ==
  \/ \E n \in NodeIds, c \in CValues : Select(n, c)
  \/ \E n \in NodeIds : Expand(n)
  \/ \E n \in NodeIds : RolloutCall(n)
  \/ RolloutStep
  \/ RolloutReturn
  \/ \E n \in NodeIds, who_won \in WinnerArgs : Backpropagate(n, who_won)

Spec == Init /\ [][Next]_vars

\* The same calls, with the loop of a running rollout never suspended: an
\* iteration that can run does run, and so does the return.
SpecRollout ==
  Init /\ [][Next]_vars /\ WF_vars(RolloutStep) /\ WF_vars(RolloutReturn)

\* The same calls when every winner handed to backpropagate is a key of
\* wins: a player or the draw sentinel.
NextKeyed ==
  \/ \E n \in NodeIds, c \in CValues : Select(n, c)
  \/ \E n \in NodeIds : Expand(n)
  \/ \E n \in NodeIds : RolloutCall(n)
  \/ RolloutStep
  \/ RolloutReturn
  \/ \E n \in NodeIds, who_won \in DOMAIN NewWins : Backpropagate(n, who_won)

SpecKeyed == Init /\ [][NextKeyed]_vars

(***************************************************************************)
(* The search loop of section 2: from the root, select, then rollout on    *)
(* the node select returned, then backpropagate the winner from that node; *)
(* each phase runs to completion before the next, for Budget cycles.  An   *)
(* exception in any phase ends the loop.                                   *)
(***************************************************************************)
DriverInit ==
  /\ \E gs \in RootStates : nodes = <<NewNode(gs, 0, 0)>>
  /\ pc = "idle"
  /\ rollout_node = 0
  /\ rollout_state = 0
  /\ last = NoCall
  /\ traversed = <<0>>
  /\ calls = 0
  /\ \E c \in CValues : driver = [DriverOff EXCEPT !.phase = "select", !.c = c]

DriverSelect ==
  /\ driver.phase = "select"
  /\ driver.cycles < Budget
  /\ pc = "idle"
  /\ LET r == select(nodes, 1, driver.c)
     IN /\ nodes' = r.nodes
        /\ traversed' = IF Len(r.nodes) > Len(nodes) THEN Append(traversed, 0) ELSE traversed
        /\ last' = [Call("select", 1) EXCEPT !.ret = r.ret, !.err = r.err]
        /\ driver' = IF r.err = "none"
                       THEN [driver EXCEPT !.phase = "rollout", !.leaf = r.ret,
                                           !.leaves = Append(@, r.ret)]
                       ELSE [driver EXCEPT !.phase = "failed"]
  /\ UNCHANGED <<pc, rollout_node, rollout_state, calls>>

DriverRollout ==
  /\ driver.phase = "rollout"
  /\ RolloutCall(driver.leaf)

DriverBackpropagate ==
  /\ driver.phase = "backpropagate"
  /\ pc = "idle"
  /\ LET r == backpropagate(nodes, driver.leaf, driver.winner)
     IN /\ nodes' = r.nodes
        /\ last' = [Call("backpropagate", driver.leaf) EXCEPT !.err = r.err]
        /\ driver' = IF r.err = "none"
                       THEN [driver EXCEPT !.phase = "select", !.cycles = @ + 1]
                       ELSE [driver EXCEPT !.phase = "failed"]
  /\ traversed' = [m \in NodeIds |->
                     IF m \in TraversedBy(nodes, driver.leaf, driver.winner)
                       THEN traversed[m] + 1 ELSE traversed[m]]
  /\ calls' = calls + 1
  /\ UNCHANGED <<pc, rollout_node, rollout_state>>

DriverNext ==
  \/ DriverSelect
  \/ DriverRollout
  \/ RolloutStep
  \/ RolloutReturn
  \/ DriverBackpropagate

SpecDriver == DriverInit /\ [][DriverNext]_vars

(***************************************************************************)
(* The search loop at c = 0 from the tree of the selection scenario: the   *)
(* root (player B to move, two valid moves) is fully expanded, one child   *)
(* has 10 visits and 7 wins for B, the other 2 visits and none for B.      *)
(* The tree is the one left by two select calls on a new root followed by  *)
(* ten backpropagate calls on one child and two on the other.              *)
(***************************************************************************)
ScenarioWins(a, b, draws) ==
  [p \in players \cup {OnlyDrawPlayer} |->
     IF p = "A" THEN a ELSE IF p = "B" THEN b ELSE draws]

ScenarioInit ==
  /\ \E heavy \in {2, 3}, draws \in 0..3 :
       LET fresh == expand(expand(<<NewNode(ScenarioRoot, 0, 0)>>, 1).nodes, 1).nodes
       IN /\ nodes = [m \in 1..3 |->
                        IF m = 1
                          THEN [fresh[1] EXCEPT !.visits = 12,
                                                !.wins = ScenarioWins(5 - draws, 7, draws)]
                          ELSE IF m = heavy
                            THEN [fresh[m] EXCEPT !.visits = 10,
                                                  !.wins = ScenarioWins(3 - draws, 7, draws)]
                            ELSE [fresh[m] EXCEPT !.visits = 2,
                                                  !.wins = ScenarioWins(2, 0, 0)]]
          /\ traversed = [m \in 1..3 |-> IF m = 1 THEN 12 ELSE IF m = heavy THEN 10 ELSE 2]
  /\ pc = "idle"
  /\ rollout_node = 0
  /\ rollout_state = 0
  /\ last = NoCall
  /\ calls = 12
  /\ driver = [DriverOff EXCEPT !.phase = "select", !.c = 0]

SpecScenario == ScenarioInit /\ [][DriverNext]_vars

\* The child of the root without a win for the root's player.
LightChild == CHOOSE ch \in {2, 3} : nodes[ch].wins["B"] = 0

(***************************************************************************)
(* Properties.                                                             *)
(***************************************************************************)

\* C1 (as stated): the node select returns is terminal or the child it has
\* just created, and it is never both non-terminal and fully expanded.
C1_SelectNeverReturnsFullyExpanded ==
  (last.op = "select" /\ last.err = "none") =>
    /\ is_terminal(nodes, last.ret) \/ last.ret = Len(nodes)
    /\ ~(~is_terminal(nodes, last.ret) /\ is_fully_expanded(nodes, last.ret))

\* C1 (amended): a select call that returns either returns a terminal node
\* and changes nothing, or returns the child that expand created during the
\* call; a returned non-terminal node has no children, so it is fully
\* expanded only when its game state has no valid moves.
C1_SelectReturnsTerminalOrNewChild ==
  [][\A n \in NodeIds, c \in CValues :
       (last'.op = "select" /\ last'.node = n /\ last'.err = "none" /\ Select(n, c)) =>
         LET ret == last'.ret
         IN \/ /\ ret \in NodeIds
               /\ is_terminal(nodes, ret)
               /\ nodes' = nodes
            \/ /\ ret = Len(nodes) + 1
               /\ Len(nodes') = Len(nodes) + 1
               /\ nodes'[ret].children = <<>>
               /\ (is_fully_expanded(nodes', ret)
                     => get_valid_moves(nodes'[ret].game_state) = <<>>)]_vars

\* select has returned a new child that is not terminal and has no moves
C1_Witness ==
  /\ last.op = "select"
  /\ last.err = "none"
  /\ last.ret = Len(nodes)
  /\ ~is_terminal(nodes, last.ret)
  /\ is_fully_expanded(nodes, last.ret)

\* C3: every node has at most as many children as its game state has valid
\* moves, and is_fully_expanded holds exactly when the two numbers are equal.
C3_ChildrenWithinValidMoves ==
  \A n \in NodeIds :
    /\ Len(nodes[n].children) <= Len(get_valid_moves(nodes[n].game_state))
    /\ is_fully_expanded(nodes, n)
         <=> (Len(nodes[n].children) = Len(get_valid_moves(nodes[n].game_state)))

\* a node with two valid moves has both children, and a further expand on
\* it has been refused
C3_Witness ==
  /\ last.op = "expand"
  /\ last.err = "IndexError"
  /\ Len(nodes[last.node].children) = 2
  /\ is_fully_expanded(nodes, last.node)

\* C4: each expand call on a node with untried moves adds one child; the
\* call that brings the number of children to len(valid moves) leaves
\* untried_actions empty and the node fully expanded; an expand call after
\* that raises (IndexError from pop) and creates no child.
C4_ExpandExhausts ==
  [][\A n \in NodeIds :
       (last'.op = "expand" /\ last'.node = n /\ Expand(n)) =>
         LET moves == get_valid_moves(nodes[n].game_state)
         IN IF Len(nodes[n].children) = Len(moves)
              THEN /\ last'.err = "IndexError"
                   /\ last'.ret = 0
                   /\ nodes' = nodes
              ELSE /\ last'.err = "none"
                   /\ Len(nodes'[n].children) = Len(nodes[n].children) + 1
                   /\ (Len(nodes'[n].children) = Len(moves)
                         => /\ nodes'[n].untried_actions = <<>>
                            /\ is_fully_expanded(nodes', n))]_vars

\* expand was called on a node after len(valid moves) = 2 successful calls
\* and failed
C4_Witness ==
  /\ last.op = "expand"
  /\ last.err = "IndexError"
  /\ Len(get_valid_moves(nodes[last.node].game_state)) = 2
  /\ nodes[last.node].untried_actions = <<>>
  /\ \A i \in 1..2 : nodes[nodes[last.node].children[i]].parent = last.node

\* C2: the visits of every node count the backpropagate calls that have
\* executed at it, and a backpropagate(winner) started at n with a winner
\* that is a key of wins adds 1 to visits and 1 to wins[winner] at n and at
\* every ancestor of n up to the root, and changes nothing else in the tree.
C2_VisitsCountTraversals ==
  \A n \in NodeIds : nodes[n].visits = traversed[n]

C2_BackpropagateStep ==
  \A n \in NodeIds, who_won \in DOMAIN NewWins :
    (last'.op = "backpropagate" /\ last'.node = n /\ Backpropagate(n, who_won)) =>
      /\ last'.err = "none"
      /\ Len(nodes') = Len(nodes)
      /\ \A m \in NodeIds :
           IF m \in PathToRoot(nodes, n)
             THEN /\ nodes'[m].visits = nodes[m].visits + 1
                  /\ nodes'[m].wins = [nodes[m].wins EXCEPT ![who_won] = @ + 1]
                  /\ nodes'[m] = [nodes[m] EXCEPT !.visits = nodes'[m].visits,
                                                  !.wins = nodes'[m].wins]
             ELSE nodes'[m] = nodes[m]

\* C2: both parts together, the count in every state and the effect of
\* every successful backpropagate call.
C2_BackpropagateCountsPath ==
  [](C2_VisitsCountTraversals) /\ [][C2_BackpropagateStep]_vars

\* a backpropagate started two levels below the root has succeeded
C2_Witness ==
  /\ last.op = "backpropagate"
  /\ last.err = "none"
  /\ nodes[last.node].parent # 0
  /\ nodes[nodes[last.node].parent].parent = 1
  /\ nodes[last.node].visits = 1
  /\ nodes[1].visits >= 1

\* C5 (as stated): whenever a node has a child with visits = 0,
\* select_child_with_max_ucb returns a child with visits = 0, for every
\* exploration constant.
C5_UnvisitedChildSelected ==
  \A n \in NodeIds, c \in CValues :
    (\E i \in 1..Len(nodes[n].children) : nodes[nodes[n].children[i]].visits = 0)
      => nodes[select_child_with_max_ucb(nodes, n, c)].visits = 0

\* C6 (as stated): for every node, the root included, win_ratio is +inf
\* when visits = 0 and wins[parent.game_state.current_player] / visits
\* otherwise; in particular reading it yields a value.
C6_WinRatioOfEveryNode ==
  \A n \in NodeIds :
    LET r == win_ratio(nodes, n)
    IN IF nodes[n].visits = 0
         THEN r.kind = "inf"
         ELSE /\ r.kind = "fin"
              /\ r.den = nodes[n].visits
              /\ nodes[n].parent # 0
                   => r.num = nodes[n].wins[current_player(nodes[nodes[n].parent].game_state)]

\* C7: between cycles of the search loop started on a non-terminal root,
\* root.visits is the number of completed cycles and the tree has at most
\* that many non-root nodes; after the first cycle the root has exactly one
\* child, with visits = 1 and wins 1 for the winner the rollout returned
\* and 0 for every other key.
C7_DriverCycleCounts ==
  (driver.phase = "select" /\ ~is_terminal(nodes, 1)) =>
    /\ nodes[1].visits = driver.cycles
    /\ Len(nodes) - 1 <= driver.cycles
    /\ driver.cycles = 1 =>
         /\ Len(nodes[1].children) = 1
         /\ LET child == nodes[nodes[1].children[1]]
            IN /\ child.visits = 1
               /\ driver.winner \in DOMAIN child.wins
               /\ \A k \in DOMAIN child.wins :
                    child.wins[k] = IF k = driver.winner THEN 1 ELSE 0

\* one cycle done from a root with three valid moves, at c = 1.41
C7_Witness ==
  /\ driver.phase = "select"
  /\ driver.cycles = 1
  /\ driver.c = 141
  /\ Len(get_valid_moves(nodes[1].game_state)) = 3
  /\ Len(nodes[1].children) = 1
  /\ nodes[1].visits = 1

\* C9: a backpropagate call whose winner is not one of the keys set at
\* construction raises (KeyError), and after it the wins of every node
\* still has exactly those keys.
C9_UnknownWinnerRaises ==
  [][\A n \in NodeIds, who_won \in WinnerArgs \ DOMAIN NewWins :
       (last'.op = "backpropagate" /\ last'.node = n /\ Backpropagate(n, who_won)) =>
         /\ last'.err = "KeyError"
         /\ \A m \in 1..Len(nodes') : DOMAIN nodes'[m].wins = DOMAIN NewWins]_vars

\* a backpropagate call has raised KeyError on a tree with several nodes
C9_Witness ==
  /\ last.op = "backpropagate"
  /\ last.err = "KeyError"
  /\ Len(nodes) >= 2
  /\ \A m \in NodeIds : DOMAIN nodes[m].wins = players \cup {OnlyDrawPlayer}

\* C10: no step of rollout, from its call to its return, changes any node.
C10_RolloutLeavesTreeUnchanged ==
  [][(pc = "rollout" \/ pc' = "rollout") => nodes' = nodes]_vars

\* a rollout that played at least one move has returned a winner
C10_Witness ==
  /\ pc = "idle"
  /\ last.op = "rollout"
  /\ last.winner # ""
  /\ Len(nodes) >= 2
  /\ ~is_game_over(nodes[last.node].game_state)

\* C8 (as stated): in the scenario, repeated cycles at c = 0 make
\* select_child_with_max_ucb on the root return the 2-visit child as the
\* root's visits grow; so when the loop has run its cycles, that child has
\* been selected and visited again.
C8_LightChildSelectedInTheEnd ==
  driver.cycles = Budget => nodes[LightChild].visits > 2

\* C8 (amended): at c = 0 the exploration term is zero whatever the root's
\* visits, so the UCB value of each child is its win ratio; in the scenario
\* select_child_with_max_ucb on the root returns the 10-visit child in
\* every cycle, and the other child keeps its 2 visits.
C8_HeavyChildAlwaysSelected ==
  /\ \A i \in 1..Len(nodes[1].children) :
       ExplorationTerm(0, nodes[1].visits, nodes[nodes[1].children[i]].visits) = Fin(0)
  /\ select_child_with_max_ucb(nodes, 1, 0) # LightChild
  /\ nodes[select_child_with_max_ucb(nodes, 1, 0)].visits >= 10
  /\ nodes[LightChild].visits = 2

\* the root's visits have grown by three cycles, all through the 10-visit child
C8_Witness ==
  /\ driver.phase = "select"
  /\ driver.c = 0
  /\ driver.cycles >= 3
  /\ nodes[1].visits >= 15
  /\ nodes[LightChild].visits = 2
  /\ nodes[LightChild].wins["B"] = 0

\* C11: a select call changes the tree by at most one expansion.  Either it
\* returns a new child: one node gets that child appended to children and
\* loses the last entry of untried_actions, the child is added to the tree,
\* and nothing else changes; or it returns a terminal node (the receiver
\* when the receiver is terminal) or raises, and the tree is unchanged.  No
\* node's visits or wins change.
C11_SelectIsOneExpansion ==
  [][\A n \in NodeIds, c \in CValues :
       (last'.op = "select" /\ last'.node = n /\ Select(n, c)) =>
         /\ \A m \in NodeIds : /\ nodes'[m].visits = nodes[m].visits
                               /\ nodes'[m].wins = nodes[m].wins
         /\ \/ /\ nodes' = nodes
               /\ \/ last'.err # "none"
                  \/ is_terminal(nodes, last'.ret)
               /\ is_terminal(nodes, n) => last'.ret = n
            \/ /\ Len(nodes') = Len(nodes) + 1
               /\ last'.err = "none"
               /\ last'.ret = Len(nodes')
               /\ nodes'[Len(nodes')].visits = 0
               /\ nodes'[Len(nodes')].wins = NewWins
               /\ \E m \in NodeIds :
                    /\ nodes'[m].children = Append(nodes[m].children, Len(nodes'))
                    /\ nodes[m].untried_actions # <<>>
                    /\ nodes'[m].untried_actions =
                         SubSeq(nodes[m].untried_actions, 1, Len(nodes[m].untried_actions) - 1)
                    /\ \A k \in NodeIds \ {m} : nodes'[k] = nodes[k]
                    /\ nodes'[m] = [nodes[m] EXCEPT !.children = nodes'[m].children,
                                                    !.untried_actions = nodes'[m].untried_actions]]_vars

\* select called on the root has descended to a child and expanded it
C11_Witness ==
  /\ last.op = "select"
  /\ last.err = "none"
  /\ last.node = 1
  /\ last.ret = 3
  /\ nodes[3].parent = 2
  /\ nodes[2].children = <<3>>

\* C12: the nodes form a strict rooted tree.  The root is the only node
\* without a parent; every other node occurs exactly once in the children
\* of its parent and in the children of no other node; following parent
\* links from any node reaches the root within as many steps as there are
\* nodes; and no call removes or reorders a child or changes a parent.
Occurrences(ns, p, n) ==
  Cardinality({ i \in 1..Len(ns[p].children) : ns[p].children[i] = n })

RECURSIVE ReachesRoot(_, _, _)
ReachesRoot(ns, n, steps) ==
  IF ns[n].parent = 0 THEN n = 1
  ELSE /\ steps > 0
       /\ ns[n].parent \in 1..Len(ns)
       /\ ReachesRoot(ns, ns[n].parent, steps - 1)

C12_IsRootedTree ==
  /\ nodes[1].parent = 0
  /\ \A n \in NodeIds :
       /\ ReachesRoot(nodes, n, Len(nodes))
       /\ \A p \in NodeIds :
            Occurrences(nodes, p, n) = IF n # 1 /\ p = nodes[n].parent THEN 1 ELSE 0

C12_ChildrenKept ==
  /\ Len(nodes') >= Len(nodes)
  /\ \A n \in NodeIds :
       /\ nodes'[n].parent = nodes[n].parent
       /\ Len(nodes'[n].children) >= Len(nodes[n].children)
       /\ SubSeq(nodes'[n].children, 1, Len(nodes[n].children)) = nodes[n].children

\* C12: both parts together, the shape in every state and the children kept
\* by every step.
C12_StrictRootedTree ==
  [](C12_IsRootedTree) /\ [][C12_ChildrenKept]_vars

\* a root with two children in expansion order, after a backpropagate call
C12_Witness ==
  /\ Len(nodes) = 3
  /\ nodes[1].children = <<2, 3>>
  /\ nodes[2].parent = 1
  /\ nodes[3].parent = 1
  /\ last.op = "backpropagate"
  /\ nodes[1].visits >= 1

\* C13 (as stated): a rollout ends, also when the game never reports
\* game-over along the moves played: it then ends in a failure raised to
\* the caller.
C13_RolloutEnds ==
  (pc = "rollout") ~> (pc = "idle")

\* C14: expand consumes untried_actions from the end.  On a node with valid
\* moves m1..mn and k children, the i-th child created (i = 1..k) has action
\* m(n-i+1), the node as parent and make_move(m(n-i+1)) as game state, and
\* untried_actions is m1..m(n-k); the untried actions followed by the
\* children's actions, newest child first, are the valid moves.
C14_ExpandIsLifo ==
  \A p \in NodeIds :
    LET moves == get_valid_moves(nodes[p].game_state)
        n == Len(moves)
        k == Len(nodes[p].children)
    IN /\ k <= n
       /\ nodes[p].untried_actions = SubSeq(moves, 1, n - k)
       /\ \A i \in 1..k :
            LET child == nodes[nodes[p].children[i]]
            IN /\ child.action = moves[n - i + 1]
               /\ child.parent = p
               /\ child.game_state = make_move(nodes[p].game_state, moves[n - i + 1])
       /\ nodes[p].untried_actions
            \o [i \in 1..k |-> nodes[nodes[p].children[k - i + 1]].action] = moves

\* two of three valid moves are expanded: the third and then the second
C14_Witness ==
  /\ get_valid_moves(nodes[1].game_state) = <<1, 2, 3>>
  /\ Len(nodes[1].children) = 2
  /\ nodes[nodes[1].children[1]].action = 3
  /\ nodes[nodes[1].children[2]].action = 2
  /\ nodes[1].untried_actions = <<1>>

\* C15: every time select calls select_child_with_max_ucb the node has at
\* least one child, whatever the game state, so no select call ends in the
\* ValueError np.argmax raises on an empty list of UCB values.
C15_SelectAlwaysHasChildToChoose ==
  ~(last.op = "select" /\ last.err = "ValueError")

\* The sum of the values of a wins dictionary over the given keys.
RECURSIVE WinsTotal(_, _)
WinsTotal(wins, keys) ==
  IF keys = {} THEN 0
  ELSE LET k == CHOOSE x \in keys : TRUE
       IN wins[k] + WinsTotal(wins, keys \ {k})

\* C16: when every backpropagate winner is a key of wins, every node has
\* visits equal to the sum of all values of wins (players and the draw
\* sentinel together), and every value of wins is between 0 and visits.
C16_VisitsAreSumOfWins ==
  \A n \in NodeIds :
    /\ nodes[n].visits = WinsTotal(nodes[n].wins, DOMAIN nodes[n].wins)
    /\ \A k \in DOMAIN nodes[n].wins :
         nodes[n].wins[k] >= 0 /\ nodes[n].wins[k] <= nodes[n].visits

\* the root has been reached by a draw from one child and by a win from another
C16_Witness ==
  /\ Len(nodes) = 3
  /\ nodes[1].visits = 2
  /\ nodes[1].wins[OnlyDrawPlayer] = 1
  /\ \E p \in players : nodes[1].wins[p] = 1
  /\ nodes[2].visits = 1
  /\ nodes[3].visits = 1

\* The nodes on which a select(c) started at leaf_node calls
\* select_child_with_max_ucb: get_ucb is evaluated on each of their
\* children.  On a node without children the call raises and the descent
\* ends there.
RECURSIVE UcbParents(_, _, _)
UcbParents(ns, leaf_node, c) ==
  IF is_terminal(ns, leaf_node) \/ ~is_fully_expanded(ns, leaf_node)
    THEN {}
    ELSE IF ns[leaf_node].children = <<>>
      THEN {leaf_node}
      ELSE {leaf_node} \cup UcbParents(ns, select_child_with_max_ucb(ns, leaf_node, c), c)

\* C17: under the driver cycle, whenever select is about to run, every
\* get_ucb it will evaluate is on a child with visits >= 1 whose parent has
\* visits >= 1: no division by zero and no logarithm of zero.
C17_UcbOnVisitedNodesOnly ==
  (driver.phase = "select" /\ pc = "idle") =>
    \A p \in UcbParents(nodes, 1, driver.c) :
      \A i \in 1..Len(nodes[p].children) :
        /\ nodes[nodes[p].children[i]].visits >= 1
        /\ nodes[nodes[nodes[p].children[i]].parent].visits >= 1

\* the next select evaluates get_ucb at the root and again one level below
C17_Witness ==
  /\ driver.phase = "select"
  /\ driver.cycles < Budget
  /\ Cardinality(UcbParents(nodes, 1, driver.c)) = 2

\* The sum of the visits of the children of n.
RECURSIVE ChildrenVisits(_, _)
ChildrenVisits(ns, children) ==
  IF children = <<>> THEN 0
  ELSE ns[Head(children)].visits + ChildrenVisits(ns, Tail(children))

\* C18: under the driver cycle, between cycles, a non-terminal node has
\* visits equal to the sum of its children's visits, plus one when it is
\* not the root; a terminal node has no children and its visits are the
\* number of cycles in which select returned it.
C18_VisitsAccountForChildren ==
  (driver.phase = "select" /\ pc = "idle") =>
    \A n \in NodeIds :
      IF is_terminal(nodes, n)
        THEN /\ nodes[n].children = <<>>
             /\ nodes[n].visits =
                  Cardinality({ i \in 1..Len(driver.leaves) : driver.leaves[i] = n })
        ELSE nodes[n].visits =
               ChildrenVisits(nodes, nodes[n].children)
                 + (IF nodes[n].parent = 0 THEN 0 ELSE 1)

\* a three-level tree between cycles: a terminal node returned twice under
\* a non-terminal node that is not the root
C18_Witness ==
  /\ driver.phase = "select"
  /\ \E n \in NodeIds :
       /\ is_terminal(nodes, n)
       /\ nodes[n].visits = 2
       /\ nodes[n].parent # 0
       /\ nodes[nodes[n].parent].parent # 0
       /\ nodes[nodes[n].parent].visits = 3

\* C19: a backpropagate(winner) call that fails because winner is not a key
\* of wins leaves the visits and the wins of every node, the starting node
\* included, as they were before the call.
C19_FailedBackpropagateChangesNothing ==
  [][\A n \in NodeIds, who_won \in WinnerArgs \ DOMAIN NewWins :
       (last'.op = "backpropagate" /\ last'.node = n /\ last'.err = "KeyError"
          /\ Backpropagate(n, who_won))
         => \A m \in NodeIds : /\ nodes'[m].visits = nodes[m].visits
                               /\ nodes'[m].wins = nodes[m].wins]_vars

====
